---- MODULE Spec2Model ----
(***************************************************************************)
(* Verification model of the stock_ticker pipeline                         *)
(* (python3/src/stock_ticker): the RetryTracker of retry.py, the pipeline  *)
(* state store of database.py, the stage runners and the run-all           *)
(* orchestrator of cli.py, together with the earlier single-file CLI       *)
(* (python3/cli.py) which works on the same database file.                 *)
(*                                                                         *)
(* The specifications that live here:                                      *)
(*   SpecRetry    - a RetryTracker object driven by arbitrary calls;       *)
(*   SpecStore    - the pipeline_steps table driven by arbitrary writes;   *)
(*   Spec         - the database and one CLI process at a time (run-all,   *)
(*                  the extraction commands, the earlier CLI);             *)
(*   SpecSync     - the directory sync over the tickers of earlier days;   *)
(*   SpecCommands - every command but run-all, --clean and reset included; *)
(*   SpecSymbol   - is_valid_symbol over bounded arguments;                *)
(*   SpecScores   - the strategy scores over bounded universes.            *)
(***************************************************************************)
EXTENDS Integers, Sequences, FiniteSets, TLC

VARIABLES
    \* ---- RetryTracker (retry.py) ----
    topic_delays,     \* dict topic -> current delay          (self.topic_delays)
    topic_attempts,   \* dict topic -> attempt count          (self.topic_attempts)
    last_call,        \* observation: what the last tracker call did
    prev_returned,    \* observation: topic -> delay returned by the latest
                      \*   record_failure since the topic was last cleared
    limit_hit,        \* observation: topics whose latest record_failure raised
    \* ---- the SQLite database (data/market_data.db) ----
    db,               \* record of tables: tickers, sync_history, daily_metrics,
                      \*   strategy_scores, pipeline_steps (+ their order by
                      \*   completed_at), pipeline_runs
    \* ---- the one CLI process that may be running ----
    proc,             \* command, position and local variables of the process
    \* ---- observations of the current / latest invocation ----
    invoked,          \* stages run-all has called, in call order
    returned_ok,      \* stages that returned normally to run-all
    skipped,          \* stages run-all skipped as "Already completed"
    fetched,          \* symbols handed to yf.download by Pass 1
    outcome,          \* how the latest command ended
    prev_failed,      \* stage at which the directly preceding run-all failed
    \* ---- calls of the pure functions ----
    symbol_in,        \* the argument of is_valid_symbol (utils.py)
    valid,            \* what is_valid_symbol returned for it, once called
    df,               \* the DataFrame build_assets loads (builders.py)
    scores            \* symbol -> the five scores computed from df, once computed

retryVars == <<topic_delays, topic_attempts, last_call, prev_returned, limit_hit>>
trackerObs == <<last_call, prev_returned, limit_hit>>
pipeVars == <<db, proc, invoked, returned_ok, skipped, fetched, outcome, prev_failed>>
calcVars == <<symbol_in, valid, df, scores>>
vars == <<topic_delays, topic_attempts, last_call, prev_returned, limit_hit,
          db, proc, invoked, returned_ok, skipped, fetched, outcome, prev_failed,
          symbol_in, valid, df, scores>>

----------------------------------------------------------------------------
\* Delays are counted in half-seconds, so that 0.5 s is the integer 1.
BACKOFF_INITIAL_DELAY == 1
BACKOFF_MAX_DELAY == 600
BACKOFF_MULTIPLIER == 2

\* Bound on the attempt counter of one topic (the code has none).
MaxAttempts == 13

Topics == {"yahoo_finance_batch", "yahoo_finance_metadata:AAPL"}

Min(a, b) == IF a <= b THEN a ELSE b

\* dict helpers: a dict is a function whose DOMAIN is the set of keys
DictSet(d, k, v) == [x \in (DOMAIN d) \cup {k} |-> IF x = k THEN v ELSE d[x]]
DictDel(d, k) == [x \in (DOMAIN d) \ {k} |-> d[x]]
EmptyDict == [x \in {} |-> 0]

\* self.max_delay as set by RetryTracker.__init__ (get_retry_tracker() passes
\* no argument)
max_delay == BACKOFF_MAX_DELAY

\* retry.py:56   if current_delay >= self.max_delay
LimitExceededStrict(current_delay) == current_delay > max_delay
LimitExceeded(current_delay) == current_delay >= max_delay

\* retry.py:74   next_delay = min(current_delay * BACKOFF_MULTIPLIER, self.max_delay)
NextDelayUncapped(current_delay) == current_delay * BACKOFF_MULTIPLIER
NextDelay(current_delay) == Min(current_delay * BACKOFF_MULTIPLIER, max_delay)

\* retry.py:48-53: the entry is created on first failure, then the attempt is counted
DelaysOnEntry(delays, topic) ==
    IF topic \in DOMAIN delays THEN delays
    ELSE DictSet(delays, topic, BACKOFF_INITIAL_DELAY)
AttemptsOnEntry(attempts, topic) ==
    IF topic \in DOMAIN attempts THEN attempts ELSE DictSet(attempts, topic, 0)

\* RetryTracker.record_failure as a function of the tracker's two dicts.
\* Result: the new dicts, whether BackoffLimitExceeded was raised, the value
\* returned and the time slept.
RecordFailureResult(delays, attempts, topic) ==
    LET d0 == DelaysOnEntry(delays, topic)
        a0 == AttemptsOnEntry(attempts, topic)
        current_delay == d0[topic]
        a1 == [a0 EXCEPT ![topic] = @ + 1]
    IN  IF LimitExceeded(current_delay)
        THEN [delays |-> d0, attempts |-> a1, raised |-> TRUE,
              ret |-> 0, slept |-> 0]
        ELSE [delays |-> [d0 EXCEPT ![topic] = NextDelay(current_delay)],
              attempts |-> a1, raised |-> FALSE,
              ret |-> current_delay, slept |-> current_delay]

\* RetryTracker.record_success
RecordSuccessDelaysKept(delays, topic) == delays
RecordSuccessDelays(delays, topic) ==
    IF topic \in DOMAIN delays THEN DictDel(delays, topic) ELSE delays
RecordSuccessAttempts(delays, attempts, topic) ==
    IF topic \in DOMAIN delays THEN DictDel(attempts, topic) ELSE attempts

NoCall == [op |-> "none", topic |-> "", raised |-> FALSE, ret |-> 0, slept |-> 0]

----------------------------------------------------------------------------
\* The database, the upstream feeds and the pure helpers of the pipeline.

\* SQL NULL is the empty tuple, a value v is <<v>>.
Null == <<>>
Some(v) == <<v>>

\* config.py: filtering thresholds and batch sizes
MIN_PRICE == 5
MIN_VOLUME == 100000
PRICE_BATCH_SIZE == 100
METADATA_BATCH_SIZE == 50

\* Bound on the pipeline_runs rows of one day (one per run-all invocation).
MaxRuns == 2

\* Upstream listing files.  nasdaqlisted.txt lists AAPL; otherlisted.txt lists
\* IBM and the ETF SPY (ETF column 'Y', "ETF" in its security name).
NasdaqListed == {"AAPL"}
OtherListed == {"IBM", "SPY"}
EtfListed == {"SPY"}
Symbols == NasdaqListed \cup OtherListed
\* ORDER BY symbol
SymbolOrder == <<"AAPL", "IBM", "SPY">>
SortBySymbol(S) == SelectSeq(SymbolOrder, LAMBDA s : s \in S)
SeqToSet(q) == {q[n] : n \in 1..Len(q)}

\* What yf.download can hold for one symbol: nothing, or the last Close and
\* Volume.  A NaN close is stored by SQLite as NULL.
NoData == [has |-> FALSE, price |-> Null, volume |-> 0]
Quotes == {NoData,
           [has |-> TRUE, price |-> Some(150), volume |-> 50000000],
           [has |-> TRUE, price |-> Some(2), volume |-> 10000000],
           [has |-> TRUE, price |-> Some(150), volume |-> 50000],
           [has |-> TRUE, price |-> Null, volume |-> 50000000]}

\* run_all's stages in call order (cli.py:734-788), and the names a
\* pipeline_steps row can carry
Stages == <<"sync-ftp", "extract-prices", "extract-metadata", "build", "generate-hugo">>
StageSet == SeqToSet(Stages)
StagePos(stage) == CHOOSE n \in 1..Len(Stages) : Stages[n] = stage

EmptyDb ==
    [tickers |-> EmptyDict,          \* symbol -> is_etf
     sync_history |-> FALSE,         \* a sync_history row for today exists
     daily_metrics |-> EmptyDict,    \* symbol -> [price, volume, market_cap]
     strategy_scores |-> {},         \* symbols with a strategy_scores row
     pipeline_steps |-> EmptyDict,   \* step_name -> [status, tickers_processed]
     step_order |-> <<>>,            \* step names by completed_at, oldest first
     pipeline_runs |-> <<>>]         \* rows [status, failed_step] by run_id

\* database.py:102-116  INSERT OR REPLACE INTO pipeline_steps ... CURRENT_TIMESTAMP
record_pipeline_step(d, step_name, tickers_processed, status) ==
    [d EXCEPT
       !.pipeline_steps = DictSet(@, step_name,
             [status |-> status, tickers_processed |-> tickers_processed]),
       !.step_order = Append(SelectSeq(@, LAMBDA n : n # step_name), step_name)]

\* rows of pipeline_steps for today with a given status, most recent first
\* (ORDER BY completed_at DESC, then the list comprehension)
Reverse(q) == [n \in 1..Len(q) |-> q[Len(q) + 1 - n]]
StepsWithStatus(d, status) ==
    SelectSeq(Reverse(d.step_order), LAMBDA n : d.pipeline_steps[n].status = status)

StatusOfRowsFailedFirst(d, all_steps) ==
    IF StepsWithStatus(d, "failed") # <<>> THEN "failed"
    ELSE IF StepsWithStatus(d, "in_progress") # <<>> THEN "in_progress"
    ELSE IF all_steps \subseteq SeqToSet(StepsWithStatus(d, "completed")) THEN "completed"
    ELSE "partial"
\* database.py:292-341: the status once some row exists
StatusOfRows(d, all_steps) ==
    IF StepsWithStatus(d, "in_progress") # <<>> THEN "in_progress"
    ELSE IF StepsWithStatus(d, "failed") # <<>> THEN "failed"
    ELSE IF all_steps \subseteq SeqToSet(StepsWithStatus(d, "completed")) THEN "completed"
    ELSE "partial"

\* database.py:246-341
get_pipeline_state(d) ==
    LET completed == SeqToSet(StepsWithStatus(d, "completed"))
        status == IF d.step_order = <<>> THEN "idle" ELSE StatusOfRows(d, StageSet)
    IN  [status |-> status,
         current_step |->
            IF status = "in_progress" THEN StepsWithStatus(d, "in_progress")[1]
            ELSE IF status = "failed" THEN StepsWithStatus(d, "failed")[1]
            ELSE "",
         completed_steps |-> IF status = "idle" THEN {} ELSE completed]

\* database.py:482-508
create_pipeline_run(d) ==
    [d EXCEPT !.pipeline_runs = Append(@, [status |-> "pending", failed_step |-> ""])]

\* database.py:511-580 (status and failed_step columns)
update_pipeline_run(d, run_id, status, failed_step) ==
    IF run_id \in 1..Len(d.pipeline_runs)
    THEN [d EXCEPT !.pipeline_runs[run_id] = [status |-> status, failed_step |-> failed_step]]
    ELSE d

\* database.py:816-835: clean_today_data(step_name=None); sync_history and
\* tickers are kept
clean_today_data_all(d) ==
    [d EXCEPT !.pipeline_runs = <<>>, !.strategy_scores = {},
              !.daily_metrics = EmptyDict, !.pipeline_steps = EmptyDict,
              !.step_order = <<>>]

\* DELETE FROM pipeline_steps WHERE run_date = ? AND step_name = ?
DeleteStep(d, step_name) ==
    [d EXCEPT
       !.pipeline_steps = IF step_name \in DOMAIN @ THEN DictDel(@, step_name) ELSE @,
       !.step_order = SelectSeq(@, LAMBDA n : n # step_name)]

\* database.py:837-884: clean_today_data with a step name
clean_today_data(d, step_name) ==
    CASE step_name \in {"extract-prices", "extract-metadata"} ->
            DeleteStep([d EXCEPT !.daily_metrics = EmptyDict], step_name)
      [] step_name = "build" ->
            DeleteStep([d EXCEPT !.strategy_scores = {}], step_name)
      [] OTHER -> DeleteStep(d, step_name)

\* cli.py:885-985, the reset command.  The names its body has bound when it
\* reaches line 933 (`if ftp_synced:`): reading any other name is a NameError.
ResetLocals == {"ctx", "force", "conn", "cursor", "today", "daily_metrics_count",
                "scores_count", "steps_count"}
reset(d, force) ==
    LET nothing == /\ d.daily_metrics = EmptyDict
                   /\ d.strategy_scores = {}
                   /\ d.pipeline_steps = EmptyDict
    IN  IF nothing /\ ~force THEN [db |-> d, result |-> "return"]
        ELSE IF "ftp_synced" \notin ResetLocals THEN [db |-> d, result |-> "NameError"]
        ELSE [db |-> [d EXCEPT !.daily_metrics = EmptyDict, !.strategy_scores = {},
                               !.pipeline_steps = EmptyDict, !.step_order = <<>>],
              result |-> "return"]

\* python3/cli.py:1158-1300, the earlier CLI's reset: after the typed
\* confirmation it deletes today's rows of four tables, sync_history included
cmd_reset(d, confirmed) ==
    IF confirmed
    THEN [d EXCEPT !.daily_metrics = EmptyDict, !.strategy_scores = {},
                   !.pipeline_steps = EmptyDict, !.step_order = <<>>,
                   !.sync_history = FALSE]
    ELSE d

\* INSERT OR IGNORE INTO tickers
InsertTickers(tickers, rows) ==
    [s \in (DOMAIN tickers) \cup (DOMAIN rows) |->
        IF s \in DOMAIN tickers THEN tickers[s] ELSE rows[s]]

HasPrice(d, s) == s \in DOMAIN d.daily_metrics /\ d.daily_metrics[s].price # Null

\* extractors.py:53-63: non-ETF tickers without a priced row today, by symbol
PendingPricesAnyRow(d) ==
    SortBySymbol({s \in DOMAIN d.tickers :
                    d.tickers[s] = FALSE /\ s \notin DOMAIN d.daily_metrics})
PendingPrices(d) ==
    SortBySymbol({s \in DOMAIN d.tickers : d.tickers[s] = FALSE /\ ~HasPrice(d, s)})

\* extractors.py:73-74  SELECT COUNT(*) FROM daily_metrics WHERE date = ? AND
\* price IS NOT NULL
CompletedPricesNone(d) == 0
CompletedPrices(d) == Cardinality({s \in DOMAIN d.daily_metrics : HasPrice(d, s)})

\* What the latest run-all or status command came to; none after any other command.
NoOutcome == [kind |-> "none", stage |-> ""]

\* The process record when no CLI process runs.
NoProc == [cmd |-> "none", pc |-> "none", k |-> 0, force |-> FALSE, clean |-> FALSE,
           status |-> "", completed_steps |-> {}, run_id |-> 0,
           pending_symbols |-> <<>>, i |-> 0, processed |-> 0, retry_of |-> ""]

\* no pure function has been called
NoSymbol == [type |-> "NoneType", value |-> <<>>]
NoCalc ==
    /\ symbol_in = NoSymbol
    /\ valid = Null
    /\ df = EmptyDict
    /\ scores = EmptyDict

\* a fresh RetryTracker, an initialised empty database, no process
Idle ==
    /\ topic_delays = EmptyDict
    /\ topic_attempts = EmptyDict
    /\ last_call = NoCall
    /\ prev_returned = EmptyDict
    /\ limit_hit = {}
    /\ db = EmptyDb
    /\ proc = NoProc
    /\ invoked = <<>>
    /\ returned_ok = {}
    /\ skipped = {}
    /\ fetched = {}
    /\ outcome = NoOutcome
    /\ prev_failed = ""

Init == Idle /\ NoCalc

AttemptsOf(topic) == IF topic \in DOMAIN topic_attempts THEN topic_attempts[topic] ELSE 0

record_failure(topic) ==
    /\ UNCHANGED <<pipeVars, calcVars>>
    /\ AttemptsOf(topic) < MaxAttempts
    /\ LET r == RecordFailureResult(topic_delays, topic_attempts, topic)
       IN  /\ topic_delays' = r.delays
           /\ topic_attempts' = r.attempts
           /\ last_call' = [op |-> "record_failure", topic |-> topic,
                            raised |-> r.raised, ret |-> r.ret, slept |-> r.slept]
           /\ prev_returned' = IF r.raised THEN prev_returned
                               ELSE DictSet(prev_returned, topic, r.ret)
           /\ limit_hit' = IF r.raised THEN limit_hit \cup {topic}
                           ELSE limit_hit \ {topic}

record_success(topic) ==
    /\ UNCHANGED <<pipeVars, calcVars>>
    /\ topic_delays' = RecordSuccessDelays(topic_delays, topic)
    /\ topic_attempts' = RecordSuccessAttempts(topic_delays, topic_attempts, topic)
    /\ last_call' = [op |-> "record_success", topic |-> topic,
                     raised |-> FALSE, ret |-> 0, slept |-> 0]
    /\ prev_returned' = IF topic \in DOMAIN prev_returned
                        THEN DictDel(prev_returned, topic) ELSE prev_returned
    /\ limit_hit' = limit_hit \ {topic}

\* RetryTracker.reset(topic) with a topic
reset_topic(topic) ==
    /\ UNCHANGED <<pipeVars, calcVars>>
    /\ topic_delays' = IF topic \in DOMAIN topic_delays
                       THEN DictDel(topic_delays, topic) ELSE topic_delays
    /\ topic_attempts' = IF topic \in DOMAIN topic_delays
                         THEN DictDel(topic_attempts, topic) ELSE topic_attempts
    /\ last_call' = [op |-> "reset", topic |-> topic,
                     raised |-> FALSE, ret |-> 0, slept |-> 0]
    /\ prev_returned' = IF topic \in DOMAIN prev_returned
                        THEN DictDel(prev_returned, topic) ELSE prev_returned
    /\ limit_hit' = limit_hit \ {topic}

\* RetryTracker.reset() with topic=None
reset_all ==
    /\ UNCHANGED <<pipeVars, calcVars>>
    /\ topic_delays' = EmptyDict
    /\ topic_attempts' = EmptyDict
    /\ last_call' = [op |-> "reset", topic |-> "", raised |-> FALSE,
                     ret |-> 0, slept |-> 0]
    /\ prev_returned' = EmptyDict
    /\ limit_hit' = {}

RecordFailureStep == \E topic \in Topics : record_failure(topic)
RecordSuccessStep == \E topic \in Topics : record_success(topic)
ResetTopicStep == \E topic \in Topics : reset_topic(topic)

RetryNext ==
    \/ RecordFailureStep
    \/ RecordSuccessStep
    \/ ResetTopicStep
    \/ reset_all

SpecRetry == Init /\ [][RetryNext]_vars

----------------------------------------------------------------------------
\* The run-all orchestrator (cli.py:629-882) and the stage runners.

\* cli.py:736,747,758,769,780   if '<stage>' not in state['completed_steps']
ShouldSkipNever(stage, completed_steps) == FALSE
ShouldSkip(stage, completed_steps) == stage \in completed_steps

\* the position after a stage has been skipped or has returned
AdvancePastNext(p) ==
    IF p.k + 1 < Len(Stages)
    THEN [p EXCEPT !.pc = "stage", !.k = @ + 2, !.pending_symbols = <<>>,
                   !.i = 0, !.processed = 0]
    ELSE [p EXCEPT !.pc = "finish", !.k = 0, !.pending_symbols = <<>>,
                   !.i = 0, !.processed = 0]
Advance(p) ==
    IF p.k < Len(Stages)
    THEN [p EXCEPT !.pc = "stage", !.k = @ + 1, !.pending_symbols = <<>>,
                   !.i = 0, !.processed = 0]
    ELSE [p EXCEPT !.pc = "finish", !.k = 0, !.pending_symbols = <<>>,
                   !.i = 0, !.processed = 0]

\* the function names that traceback.format_exc() shows when a stage raised
StageFunction(stage) ==
    CASE stage = "sync-ftp" -> "sync_ftp"
      [] stage = "extract-prices" -> "extract_prices"
      [] stage = "extract-metadata" -> "extract_metadata"
      [] stage = "build" -> "build_assets"
      [] stage = "generate-hugo" -> "generate_all_hugo_content"
Traceback(stage) == {"run_all", StageFunction(stage)}

\* cli.py:792-804
FailedStep(tb) ==
    IF "sync_ftp" \in tb THEN "sync-ftp"
    ELSE IF "extract_prices" \in tb THEN "extract-prices"
    ELSE IF "extract_metadata" \in tb THEN "extract-metadata"
    ELSE IF "build_assets" \in tb THEN "build"
    ELSE "unknown"

\* cli.py:790-829  except Exception: ... record the failure, re-raise
HandleException(d, p, stage) ==
    LET failed_step == FailedStep(Traceback(stage))
    IN  update_pipeline_run(record_pipeline_step(d, failed_step, 0, "failed"),
                            p.run_id, "failed", failed_step)

\* ftp_sync.py:65-70  SELECT sync_date FROM sync_history WHERE sync_date = ?
AlreadySyncedNever(d) == FALSE
AlreadySynced(d) == d.sync_history

\* ftp_sync.py:50-229.  The inputs say whether the FTP download, the parse of
\* each listing file and the final commit succeed.
sync_ftp(d, download_ok, nasdaq_ok, other_ok, commit_ok) ==
    IF AlreadySynced(d) THEN [db |-> d, result |-> "return"]
    ELSE IF ~download_ok THEN [db |-> d, result |-> "SystemExit"]
    ELSE
      LET nasdaq_rows == [s \in (IF nasdaq_ok THEN NasdaqListed \ EtfListed ELSE {})
                             |-> FALSE]
          other_rows == [s \in (IF other_ok THEN OtherListed \ EtfListed ELSE {})
                             |-> FALSE]
          t2 == InsertTickers(InsertTickers(d.tickers, nasdaq_rows), other_rows)
          tickers_added == Cardinality((DOMAIN t2) \ (DOMAIN d.tickers))
      IN  IF commit_ok
          THEN [db |-> record_pipeline_step(
                          [d EXCEPT !.tickers = t2, !.sync_history = TRUE],
                          "sync-ftp", tickers_added, "completed"),
                result |-> "return"]
          ELSE [db |-> d, result |-> "Exception"]

\* python3/cli.py:485-597, the earlier CLI's sync: ETFs are inserted with
\* is_etf set, nothing guards the commit
cmd_sync_ftp(d, download_ok, nasdaq_ok, other_ok) ==
    IF d.sync_history THEN d
    ELSE IF ~download_ok THEN d
    ELSE
      LET nasdaq_rows == [s \in (IF nasdaq_ok THEN NasdaqListed ELSE {})
                             |-> s \in EtfListed]
          other_rows == [s \in (IF other_ok THEN OtherListed ELSE {})
                             |-> s \in EtfListed]
          t2 == InsertTickers(InsertTickers(d.tickers, nasdaq_rows), other_rows)
          tickers_added == Cardinality((DOMAIN t2) \ (DOMAIN d.tickers))
      IN  record_pipeline_step([d EXCEPT !.tickers = t2, !.sync_history = TRUE],
                               "sync-ftp", tickers_added, "completed")

----------------------------------------------------------------------------
\* The two extraction passes and the later stages.

\* retry.py:138  def record_request(self, service, endpoint='default')
RecordRequestParameters == {"service", "endpoint"}
record_request_any_keyword(keywords) == "ok"
record_request(keywords) ==
    IF keywords \subseteq RecordRequestParameters THEN "ok" ELSE "TypeError"

\* retry.py:127-197: the methods RequestMetrics defines
RequestMetricsMethods == {"record_request", "get_counts", "get_total", "reset", "summary"}

\* what a Yahoo Finance call can raise, by the words its message holds
DownloadErrors == {"none", "rate limit", "connection", "other"}
TypeErrorMessage == "got an unexpected keyword argument"
MarketCaps == {Null, Some(1000000000)}

\* INSERT OR REPLACE INTO daily_metrics (symbol, date, price, volume)
SavePrices(d, got, quotes) ==
    [d EXCEPT !.daily_metrics =
        [s \in (DOMAIN @) \cup got |->
            IF s \in got
            THEN [price |-> quotes[s].price, volume |-> quotes[s].volume,
                  market_cap |-> Null]
            ELSE @[s]]]

\* extractors.py:210-222 and 411-426: the tail of the except Exception handler.
\* exception: what leaves the stage, "none" when the loop goes on
BackoffOnError(d, delays, attempts, processed, message, topic) ==
    IF message \in {"rate limit", "connection"}
    THEN LET r == RecordFailureResult(delays, attempts, topic)
         IN  [db |-> d, delays |-> r.delays, attempts |-> r.attempts,
              processed |-> processed, raised |-> r.raised,
              exception |-> IF r.raised THEN "BackoffLimitExceeded" ELSE "none"]
    ELSE [db |-> d, delays |-> delays, attempts |-> attempts,
          processed |-> processed, raised |-> FALSE, exception |-> "none"]

\* extractors.py:94-222: one iteration of extract_prices' batch loop
PriceBatch(d, delays, attempts, batch, batch_num, processed, error, quotes) ==
    LET symbols == SeqToSet(batch)
        got == {s \in symbols : quotes[s].has}
        delays1 == IF error = "none"
                   THEN RecordSuccessDelays(delays, "yahoo_finance_batch") ELSE delays
        attempts1 == IF error = "none"
                     THEN RecordSuccessAttempts(delays, attempts, "yahoo_finance_batch")
                     ELSE attempts
        body_raises ==
            \/ error # "none"
            \/ record_request({"service", "endpoint", "bytes_downloaded"}) = "TypeError"
            \/ /\ symbols \ got # {}
               /\ record_request({"service", "endpoint", "failed"}) = "TypeError"
        message == IF error # "none" THEN error ELSE TypeErrorMessage
        saved == IF got = {} THEN d ELSE SavePrices(d, got, quotes)
        processed1 == processed + Cardinality(got)
    IN  IF ~body_raises
        THEN [db |-> IF got # {} /\ batch_num % 5 = 0
                     THEN record_pipeline_step(saved, "extract-prices", processed1,
                                               "in_progress")
                     ELSE saved,
              delays |-> delays1, attempts |-> attempts1,
              processed |-> processed1, raised |-> FALSE, exception |-> "none"]
        ELSE IF record_request({"service", "endpoint", "failed"}) = "TypeError"
        THEN [db |-> d, delays |-> delays1, attempts |-> attempts1,
              processed |-> processed, raised |-> TRUE, exception |-> "TypeError"]
        ELSE BackoffOnError(d, delays1, attempts1, processed, message,
                            "yahoo_finance_batch")

\* python3/cli.py:666-709: one iteration of cmd_extract_prices' batch loop
CmdPriceBatch(d, batch, processed, download_ok, quotes) ==
    LET got == {s \in SeqToSet(batch) : quotes[s].has}
    IN  IF download_ok /\ got # {}
        THEN [db |-> SavePrices(d, got, quotes), processed |-> processed + Cardinality(got)]
        ELSE [db |-> d, processed |-> processed]

\* extractors.py:276-285
PassesFilterPriceOnly(row) == row.price # Null /\ row.price[1] >= MIN_PRICE
PassesFilter(row) ==
    /\ row.price # Null /\ row.price[1] >= MIN_PRICE
    /\ row.volume >= MIN_VOLUME
PendingMetadataAnyCap(d) ==
    SortBySymbol({s \in DOMAIN d.daily_metrics : PassesFilter(d.daily_metrics[s])})
PendingMetadataUnfiltered(d) ==
    SortBySymbol({s \in DOMAIN d.daily_metrics : d.daily_metrics[s].market_cap = Null})
PendingMetadata(d) ==
    SortBySymbol({s \in DOMAIN d.daily_metrics :
                    PassesFilter(d.daily_metrics[s]) /\ d.daily_metrics[s].market_cap = Null})

\* extractors.py:334-426: one iteration of extract_metadata's symbol loop
MetadataTopic(symbol) ==
    CASE symbol = "AAPL" -> "yahoo_finance_metadata:AAPL"
      [] symbol = "IBM" -> "yahoo_finance_metadata:IBM"
      [] symbol = "SPY" -> "yahoo_finance_metadata:SPY"
MetadataSymbolSharedTopic(d, delays, attempts, symbol, processed, error, market_cap) ==
    IF error = "none"
    THEN [db |-> IF symbol \in DOMAIN d.daily_metrics
                 THEN [d EXCEPT !.daily_metrics[symbol].market_cap = market_cap]
                 ELSE d,
          delays |-> delays, attempts |-> attempts,
          processed |-> processed + 1, raised |-> FALSE, exception |-> "none"]
    ELSE BackoffOnError(d, delays, attempts, processed, error, "yahoo_finance_metadata")
MetadataSymbol(d, delays, attempts, symbol, processed, error, market_cap) ==
    LET topic == MetadataTopic(symbol)
        updated == IF symbol \in DOMAIN d.daily_metrics
                   THEN [d EXCEPT !.daily_metrics[symbol].market_cap = market_cap]
                   ELSE d
        d1 == IF error = "none" THEN updated ELSE d
        processed1 == IF error = "none" THEN processed + 1 ELSE processed
        delays1 == IF error = "none" THEN RecordSuccessDelays(delays, topic) ELSE delays
        attempts1 == IF error = "none"
                     THEN RecordSuccessAttempts(delays, attempts, topic) ELSE attempts
        body_raises ==
            \/ error # "none"
            \/ record_request({"service", "endpoint", "bytes_downloaded"}) = "TypeError"
        message == IF error # "none" THEN error ELSE TypeErrorMessage
    IN  IF ~body_raises
        THEN [db |-> IF processed1 % 10 = 0
                     THEN record_pipeline_step(d1, "extract-metadata", processed1,
                                               "in_progress")
                     ELSE d1,
              delays |-> delays1, attempts |-> attempts1,
              processed |-> processed1, raised |-> FALSE, exception |-> "none"]
        ELSE IF record_request({"service", "endpoint", "failed"}) = "TypeError"
        THEN [db |-> d1, delays |-> delays1, attempts |-> attempts1,
              processed |-> processed1, raised |-> TRUE, exception |-> "TypeError"]
        ELSE BackoffOnError(d1, delays1, attempts1, processed1, message, topic)

\* builders.py:15-256.  io_ok: the JSON files can be written.
build_assets(d, io_ok) ==
    LET rows == {s \in (DOMAIN d.daily_metrics) \cap (DOMAIN d.tickers) :
                    /\ PassesFilter(d.daily_metrics[s])
                    /\ d.daily_metrics[s].market_cap # Null}
        scored == [d EXCEPT !.strategy_scores = @ \cup rows]
    IN  IF rows = {} THEN [db |-> d, result |-> "return"]
        ELSE IF ~io_ok THEN [db |-> scored, result |-> "Exception"]
        ELSE [db |-> record_pipeline_step(scored, "build", Cardinality(rows), "completed"),
              result |-> "return"]

----------------------------------------------------------------------------
\* How a stage call ends, inside run_all or as a command of its own.

\* the stage returned normally: run_all goes on to the next stage
Returned(stage, d) ==
    /\ db' = d
    /\ returned_ok' = returned_ok \cup {stage}
    /\ IF proc.cmd = "run-all"
       THEN /\ proc' = Advance(proc)
            /\ UNCHANGED <<outcome, prev_failed>>
       ELSE /\ proc' = NoProc
            /\ outcome' = NoOutcome
            /\ prev_failed' = ""

\* the stage raised an Exception: run_all's handler records it and re-raises
Raised(stage, d) ==
    /\ proc' = NoProc
    /\ UNCHANGED returned_ok
    /\ IF proc.cmd = "run-all"
       THEN /\ db' = HandleException(d, proc, stage)
            /\ outcome' = [kind |-> "failed", stage |-> stage]
            /\ prev_failed' = stage
       ELSE /\ db' = d
            /\ outcome' = NoOutcome
            /\ prev_failed' = ""

\* the stage called sys.exit: SystemExit is no Exception, the handler is passed by
Exited(stage, d) ==
    /\ db' = d
    /\ proc' = NoProc
    /\ outcome' = [kind |-> "exit", stage |-> stage]
    /\ prev_failed' = stage
    /\ UNCHANGED returned_ok

\* the next step of the process is the call of this stage
AtStage(stage) ==
    /\ proc.cmd \in {"run-all", stage} /\ proc.pc = "stage"
    /\ Stages[proc.k] = stage
    /\ proc.cmd = "run-all" => ~ShouldSkip(stage, proc.completed_steps)

\* cli.py:634-732: run-all up to the creation of the pipeline_runs row
RunAllStart ==
    \E force \in BOOLEAN, clean \in BOOLEAN :
      /\ proc.cmd = "none"
      /\ Len(db.pipeline_runs) < MaxRuns
      /\ invoked' = <<>> /\ returned_ok' = {} /\ skipped' = {} /\ fetched' = {}
      /\ prev_failed' = ""
      /\ UNCHANGED <<topic_delays, topic_attempts, trackerObs, calcVars>>
      /\ LET state == get_pipeline_state(db)
         IN  IF state.status = "completed" /\ ~force
             THEN /\ outcome' = [kind |-> "already-completed", stage |-> ""]
                  /\ UNCHANGED <<db, proc>>
             ELSE LET d1 == IF clean THEN clean_today_data_all(db) ELSE db
                      d2 == create_pipeline_run(d1)
                  IN  /\ db' = d2
                      /\ proc' = [NoProc EXCEPT
                            !.cmd = "run-all", !.pc = "stage", !.k = 1,
                            !.force = force, !.clean = clean,
                            !.status = IF clean THEN "idle" ELSE state.status,
                            !.completed_steps =
                               IF clean \/ state.status = "completed" THEN {}
                               ELSE state.completed_steps,
                            !.run_id = Len(d2.pipeline_runs),
                            !.retry_of = prev_failed]
                      /\ outcome' = [kind |-> "running", stage |-> ""]

\* cli.py:503-570: a stage as a command of its own, up to the call of the
\* stage; --clean cleans that step's data first
StageCommand(stage, clean) ==
    /\ proc.cmd = "none"
    /\ proc' = [NoProc EXCEPT !.cmd = stage, !.pc = "stage", !.k = StagePos(stage),
                              !.clean = clean]
    /\ db' = IF clean THEN clean_today_data(db, stage) ELSE db
    /\ invoked' = <<>> /\ returned_ok' = {} /\ skipped' = {} /\ fetched' = {}
    /\ outcome' = NoOutcome
    /\ prev_failed' = ""
    /\ UNCHANGED <<topic_delays, topic_attempts, trackerObs, calcVars>>

\* cli.py:520-553: extract-prices or extract-metadata without --clean
StandaloneStages == {"extract-prices", "extract-metadata"}
CmdStageStart == \E stage \in StandaloneStages : StageCommand(stage, FALSE)

\* cli.py:742-744 and the like: "... Already completed"
RunSkipStage ==
    /\ proc.cmd = "run-all" /\ proc.pc = "stage"
    /\ ShouldSkip(Stages[proc.k], proc.completed_steps)
    /\ skipped' = skipped \cup {Stages[proc.k]}
    /\ proc' = Advance(proc)
    /\ UNCHANGED <<db, invoked, returned_ok, fetched, outcome, prev_failed,
                   topic_delays, topic_attempts, trackerObs, calcVars>>

\* cli.py:736-741
RunSyncFtp ==
    \E download_ok \in BOOLEAN, nasdaq_ok \in BOOLEAN, other_ok \in BOOLEAN,
       commit_ok \in BOOLEAN :
      /\ AtStage("sync-ftp")
      /\ invoked' = Append(invoked, "sync-ftp")
      /\ LET r == sync_ftp(db, download_ok, nasdaq_ok, other_ok, commit_ok)
         IN  CASE r.result = "return" -> Returned("sync-ftp", r.db)
               [] r.result = "Exception" -> Raised("sync-ftp", r.db)
               [] r.result = "SystemExit" -> Exited("sync-ftp", r.db)
      /\ UNCHANGED <<skipped, fetched, topic_delays, topic_attempts, trackerObs, calcVars>>

\* extractors.py:16-92: extract_prices up to its batch loop
RunExtractPricesBegin ==
    /\ AtStage("extract-prices")
    /\ invoked' = Append(invoked, "extract-prices")
    /\ fetched' = {}
    /\ LET d1 == record_pipeline_step(db, "extract-prices", 0, "in_progress")
           pending_symbols == PendingPrices(d1)
           completed_count == CompletedPrices(d1)
       IN  IF Len(pending_symbols) = 0
           THEN Returned("extract-prices",
                         record_pipeline_step(d1, "extract-prices", completed_count,
                                              "completed"))
           ELSE /\ db' = d1
                /\ proc' = [proc EXCEPT !.pc = "prices-loop",
                                        !.pending_symbols = pending_symbols,
                                        !.i = 0, !.processed = 0]
                /\ UNCHANGED <<returned_ok, outcome, prev_failed>>
    /\ UNCHANGED <<skipped, topic_delays, topic_attempts, trackerObs, calcVars>>

\* extractors.py:94-228: one batch, and the completion after the last one
RunExtractPricesBatch ==
    /\ proc.cmd \in {"run-all", "extract-prices"} /\ proc.pc = "prices-loop"
    /\ LET total == Len(proc.pending_symbols)
           batch == SubSeq(proc.pending_symbols, proc.i + 1,
                           Min(proc.i + PRICE_BATCH_SIZE, total))
           batch_num == (proc.i \div PRICE_BATCH_SIZE) + 1
       IN  \E error \in DownloadErrors, quotes \in [SeqToSet(batch) -> Quotes] :
             LET r == PriceBatch(db, topic_delays, topic_attempts, batch, batch_num,
                                 proc.processed, error, quotes)
             IN  /\ fetched' = fetched \cup SeqToSet(batch)
                 /\ topic_delays' = r.delays /\ topic_attempts' = r.attempts
                 /\ IF r.raised THEN Raised("extract-prices", r.db)
                    ELSE IF proc.i + PRICE_BATCH_SIZE < total
                    THEN /\ db' = r.db
                         /\ proc' = [proc EXCEPT !.i = @ + PRICE_BATCH_SIZE,
                                                 !.processed = r.processed]
                         /\ UNCHANGED <<returned_ok, outcome, prev_failed>>
                    ELSE Returned("extract-prices",
                                  record_pipeline_step(r.db, "extract-prices",
                                                       r.processed, "completed"))
    /\ UNCHANGED <<invoked, skipped, trackerObs, calcVars>>

\* extractors.py:231-318: extract_metadata up to its loop
RunExtractMetadataBegin ==
    /\ AtStage("extract-metadata")
    /\ invoked' = Append(invoked, "extract-metadata")
    /\ LET d1 == record_pipeline_step(db, "extract-metadata", 0, "in_progress")
           pending_symbols == PendingMetadata(d1)
           completed_count ==
               Cardinality({s \in DOMAIN d1.daily_metrics :
                               d1.daily_metrics[s].market_cap # Null})
       IN  IF Len(pending_symbols) = 0
           THEN Returned("extract-metadata",
                         record_pipeline_step(d1, "extract-metadata", completed_count,
                                              "completed"))
           ELSE /\ db' = d1
                /\ proc' = [proc EXCEPT !.pc = "metadata-loop",
                                        !.pending_symbols = pending_symbols,
                                        !.i = 0, !.processed = 0]
                /\ UNCHANGED <<returned_ok, outcome, prev_failed>>
    /\ UNCHANGED <<skipped, fetched, topic_delays, topic_attempts, trackerObs, calcVars>>

\* extractors.py:320-443: one symbol, and the completion after the last one
RunExtractMetadataSymbol ==
    /\ proc.cmd \in {"run-all", "extract-metadata"} /\ proc.pc = "metadata-loop"
    /\ \E error \in DownloadErrors, market_cap \in MarketCaps :
         LET total == Len(proc.pending_symbols)
             symbol == proc.pending_symbols[proc.i + 1]
             r == MetadataSymbol(db, topic_delays, topic_attempts, symbol,
                                 proc.processed, error, market_cap)
         IN  /\ topic_delays' = r.delays /\ topic_attempts' = r.attempts
             /\ IF r.raised THEN Raised("extract-metadata", r.db)
                ELSE IF proc.i + 1 < total
                THEN /\ db' = r.db
                     /\ proc' = [proc EXCEPT !.i = @ + 1, !.processed = r.processed]
                     /\ UNCHANGED <<returned_ok, outcome, prev_failed>>
                ELSE Returned("extract-metadata",
                              record_pipeline_step(r.db, "extract-metadata",
                                                   r.processed, "completed"))
    /\ UNCHANGED <<invoked, skipped, fetched, trackerObs, calcVars>>

\* cli.py:769-774
RunBuildAssets ==
    \E io_ok \in BOOLEAN :
      /\ AtStage("build")
      /\ invoked' = Append(invoked, "build")
      /\ LET r == build_assets(db, io_ok)
         IN  IF r.result = "return" THEN Returned("build", r.db)
             ELSE Raised("build", r.db)
      /\ UNCHANGED <<skipped, fetched, topic_delays, topic_attempts, trackerObs, calcVars>>

\* cli.py:780-785 with hugo_generators.py:314-348: no pipeline_steps row is
\* written; io_ok says whether the content files can be written
RunGenerateHugo ==
    \E io_ok \in BOOLEAN :
      /\ AtStage("generate-hugo")
      /\ invoked' = Append(invoked, "generate-hugo")
      /\ IF io_ok THEN Returned("generate-hugo", db)
         ELSE Raised("generate-hugo", db)
      /\ UNCHANGED <<skipped, fetched, topic_delays, topic_attempts, trackerObs, calcVars>>

\* cli.py:832-882: the summary after the last stage
RunAllFinish ==
    /\ proc.cmd = "run-all" /\ proc.pc = "finish"
    /\ proc' = NoProc
    /\ prev_failed' = ""
    /\ IF {"get_total", "get_total_failures", "get_total_bytes"}
             \subseteq RequestMetricsMethods
       THEN /\ db' = update_pipeline_run(db, proc.run_id, "completed", "")
            /\ outcome' = [kind |-> "completed", stage |-> ""]
       ELSE /\ db' = db
            /\ outcome' = [kind |-> "AttributeError", stage |-> ""]
    /\ UNCHANGED <<invoked, returned_ok, skipped, fetched,
                   topic_delays, topic_attempts, trackerObs, calcVars>>

\* the process is killed between two steps
Kill ==
    /\ proc.cmd # "none"
    /\ proc' = NoProc
    /\ outcome' = NoOutcome
    /\ prev_failed' = ""
    /\ topic_delays' = EmptyDict /\ topic_attempts' = EmptyDict
    /\ invoked' = <<>> /\ returned_ok' = {} /\ skipped' = {} /\ fetched' = {}
    /\ UNCHANGED <<db, trackerObs, calcVars>>

\* python3/cli.py:485-597: the earlier CLI's sync-ftp command
CmdSyncFtp ==
    \E download_ok \in BOOLEAN, nasdaq_ok \in BOOLEAN, other_ok \in BOOLEAN :
      /\ proc.cmd = "none"
      /\ db' = cmd_sync_ftp(db, download_ok, nasdaq_ok, other_ok)
      /\ outcome' = NoOutcome
      /\ prev_failed' = ""
      /\ UNCHANGED <<proc, invoked, returned_ok, skipped, fetched,
                     topic_delays, topic_attempts, trackerObs, calcVars>>

\* python3/cli.py:614-661: the earlier CLI's extract-prices up to its loop
CmdExtractPricesBegin ==
    /\ proc.cmd = "none"
    /\ fetched' = {} /\ invoked' = <<>> /\ returned_ok' = {} /\ skipped' = {}
    /\ prev_failed' = ""
    /\ LET pending_symbols == PendingPrices(db)
       IN  IF Len(pending_symbols) = 0
           THEN /\ proc' = NoProc
                /\ outcome' = NoOutcome
           ELSE /\ proc' = [NoProc EXCEPT !.cmd = "cmd_extract_prices",
                                          !.pc = "prices-loop",
                                          !.pending_symbols = pending_symbols]
                /\ outcome' = NoOutcome
    /\ UNCHANGED <<db, topic_delays, topic_attempts, trackerObs, calcVars>>

\* python3/cli.py:663-716: one batch, and the completion after the last one
CmdExtractPricesBatch ==
    /\ proc.cmd = "cmd_extract_prices" /\ proc.pc = "prices-loop"
    /\ LET total == Len(proc.pending_symbols)
           batch == SubSeq(proc.pending_symbols, proc.i + 1,
                           Min(proc.i + PRICE_BATCH_SIZE, total))
       IN  \E download_ok \in BOOLEAN, quotes \in [SeqToSet(batch) -> Quotes] :
             LET r == CmdPriceBatch(db, batch, proc.processed, download_ok, quotes)
             IN  /\ fetched' = fetched \cup SeqToSet(batch)
                 /\ IF proc.i + PRICE_BATCH_SIZE < total
                    THEN /\ db' = r.db
                         /\ proc' = [proc EXCEPT !.i = @ + PRICE_BATCH_SIZE,
                                                 !.processed = r.processed]
                         /\ UNCHANGED outcome
                    ELSE /\ db' = record_pipeline_step(r.db, "extract-prices",
                                                       r.processed, "completed")
                         /\ proc' = NoProc
                         /\ outcome' = NoOutcome
    /\ UNCHANGED <<invoked, returned_ok, skipped, prev_failed,
                   topic_delays, topic_attempts, trackerObs, calcVars>>

Next ==
    \/ RunAllStart
    \/ CmdStageStart
    \/ RunSkipStage
    \/ RunSyncFtp
    \/ RunExtractPricesBegin
    \/ RunExtractPricesBatch
    \/ RunExtractMetadataBegin
    \/ RunExtractMetadataSymbol
    \/ RunBuildAssets
    \/ RunGenerateHugo
    \/ RunAllFinish
    \/ Kill
    \/ CmdSyncFtp
    \/ CmdExtractPricesBegin
    \/ CmdExtractPricesBatch

Spec == Init /\ [][Next]_vars

----------------------------------------------------------------------------
\* The pipeline state store on its own: any caller may record a step row
\* (database.py:102-116) and the status command reads the state (cli.py:289-290).

StepStatuses == {"in_progress", "completed", "failed"}

RecordStep ==
    \E step_name \in StageSet, status \in StepStatuses :
      /\ db' = record_pipeline_step(db, step_name, 0, status)
      /\ outcome' = NoOutcome
      /\ UNCHANGED <<proc, invoked, returned_ok, skipped, fetched, prev_failed,
                     topic_delays, topic_attempts, trackerObs, calcVars>>

StatusCmd ==
    /\ outcome' = [kind |-> "status", stage |-> get_pipeline_state(db).status]
    /\ UNCHANGED <<db, proc, invoked, returned_ok, skipped, fetched, prev_failed,
                   topic_delays, topic_attempts, trackerObs, calcVars>>

StoreNext ==
    \/ RecordStep
    \/ StatusCmd

SpecStore == Init /\ [][StoreNext]_vars

----------------------------------------------------------------------------
\* The directory sync on its own, on a day that starts with the tickers table
\* earlier days left behind.

\* a tickers table of earlier days: any of the symbols, each with the is_etf
\* flag it had in the listing of the day it was inserted
PriorTickers == UNION {[S -> BOOLEAN] : S \in SUBSET Symbols}

InitSync ==
    /\ NoCalc
    /\ topic_delays = EmptyDict
    /\ topic_attempts = EmptyDict
    /\ last_call = NoCall
    /\ prev_returned = EmptyDict
    /\ limit_hit = {}
    /\ \E tickers \in PriorTickers : db = [EmptyDb EXCEPT !.tickers = tickers]
    /\ proc = NoProc
    /\ invoked = <<>>
    /\ returned_ok = {}
    /\ skipped = {}
    /\ fetched = {}
    /\ outcome = NoOutcome
    /\ prev_failed = ""

\* cli.py:503-517: the sync-ftp command, with or without --clean
SyncFtpCmdStart == \E clean \in BOOLEAN : StageCommand("sync-ftp", clean)

\* python3/cli.py:1369-1370: the earlier CLI's reset command
CmdReset ==
    \E confirmed \in BOOLEAN :
      /\ proc.cmd = "none"
      /\ db' = cmd_reset(db, confirmed)
      /\ outcome' = NoOutcome
      /\ prev_failed' = ""
      /\ invoked' = <<>> /\ returned_ok' = {} /\ skipped' = {} /\ fetched' = {}
      /\ UNCHANGED <<proc, topic_delays, topic_attempts, trackerObs, calcVars>>

SyncNext ==
    \/ SyncFtpCmdStart
    \/ RunSyncFtp
    \/ CmdSyncFtp
    \/ CmdReset
    \/ Kill

SpecSync == InitSync /\ [][SyncNext]_vars

----------------------------------------------------------------------------
\* The commands of the two CLIs other than run-all, one at a time: each stage
\* as a command of its own with or without --clean, the earlier CLI's sync,
\* price extraction and reset, and the reset command.

AnyStageStart ==
    \E stage \in {"sync-ftp", "extract-prices", "extract-metadata", "build"},
       clean \in BOOLEAN : StageCommand(stage, clean)

\* cli.py:885-985
ResetCmd ==
    \E force \in BOOLEAN :
      /\ proc.cmd = "none"
      /\ LET r == reset(db, force)
         IN  /\ db' = r.db
             /\ outcome' = [kind |-> r.result, stage |-> ""]
      /\ prev_failed' = ""
      /\ invoked' = <<>> /\ returned_ok' = {} /\ skipped' = {} /\ fetched' = {}
      /\ UNCHANGED <<proc, topic_delays, topic_attempts, trackerObs, calcVars>>

CommandsNext ==
    \/ AnyStageStart
    \/ RunSyncFtp
    \/ RunExtractPricesBegin
    \/ RunExtractPricesBatch
    \/ RunExtractMetadataBegin
    \/ RunExtractMetadataSymbol
    \/ RunBuildAssets
    \/ ResetCmd
    \/ CmdSyncFtp
    \/ CmdExtractPricesBegin
    \/ CmdExtractPricesBatch
    \/ CmdReset

SpecCommands == Init /\ [][CommandsNext]_vars

----------------------------------------------------------------------------
\* utils.py:14-52, is_valid_symbol.  A str is the sequence of its characters;
\* an argument of another type is given by its type and its repr.

UpperLetters == {"A", "B", "C", "D", "E", "F", "G", "H", "I", "J", "K", "L", "M",
                 "N", "O", "P", "Q", "R", "S", "T", "U", "V", "W", "X", "Y", "Z"}
\* the characters str.strip() removes, as far as the inputs hold them
Whitespace == {" ", "\t", "\n"}

\* utils.py:30  symbol = symbol.strip()
RECURSIVE LStrip(_)
LStrip(q) == IF q # <<>> /\ Head(q) \in Whitespace THEN LStrip(Tail(q)) ELSE q
RECURSIVE RStrip(_)
RStrip(q) ==
    IF q # <<>> /\ q[Len(q)] \in Whitespace THEN RStrip(SubSeq(q, 1, Len(q) - 1)) ELSE q
Strip(q) == RStrip(LStrip(q))

\* utils.py:38  re.match(r'^[A-Z]{1,5}$', symbol); $ also matches before a
\* newline that ends the string
OneToFiveUpper(q) == Len(q) \in 1..5 /\ \A n \in 1..Len(q) : q[n] \in UpperLetters
ReMatch(q) ==
    \/ OneToFiveUpper(q)
    \/ q # <<>> /\ q[Len(q)] = "\n" /\ OneToFiveUpper(SubSeq(q, 1, Len(q) - 1))

\* utils.py:42
TestTickers == {<<"T", "E", "S", "T">>, <<"Z", "Z", "Z", "Z">>, <<"X", "X", "X", "X">>}

\* utils.py:49  len(symbol) == 5 and symbol[-1] in ('W', 'R', 'U', 'P', 'Q', 'F')
DerivativeSuffixes == {"W", "R", "U", "P", "Q", "F"}
IsDerivativeAnyLength(q) == q[Len(q)] \in DerivativeSuffixes
IsDerivative(q) == Len(q) = 5 /\ q[Len(q)] \in DerivativeSuffixes

\* utils.py:26  `not symbol` by the argument's type
Falsy(arg) ==
    CASE arg.type = "str" -> arg.value = <<>>
      [] arg.type = "NoneType" -> TRUE
      [] arg.type = "int" -> arg.value = <<"0">>
      [] OTHER -> FALSE

is_valid_symbol(arg) ==
    IF Falsy(arg) \/ arg.type # "str" THEN FALSE
    ELSE LET stripped == Strip(arg.value)
         IN  IF ~ReMatch(stripped) THEN FALSE
             ELSE IF stripped \in TestTickers THEN FALSE
             ELSE IF IsDerivative(stripped) THEN FALSE
             ELSE TRUE

\* The arguments tried: every string of up to MaxSymbolLen characters from
\* InputChars, the symbols the tests and the comments of utils.py name, and
\* arguments that are no strings (None, 0, 7, float('nan')).
MaxSymbolLen == 6
InputChars == {"A", "W", "a", "1", ".", " "}
NamedSymbols ==
    {<<"A", "A", "P", "L">>, <<"M", "S", "F", "T">>, <<"^", "V", "I", "X">>,
     <<".", "D", "J", "I">>, <<"T", "E", "S", "T">>, <<"Z", "Z", "Z", "Z">>,
     <<"X", "X", "X", "X">>, <<" ", "T", "E", "S", "T", " ">>,
     <<"A", "A", "C", "B", "U">>, <<"A", "D", "S", "E", "W">>,
     <<"B", "K", "H", "A", "R">>, <<"A", "I", "R", "T", "P">>,
     <<"A", "A", "A", "A", "Q">>, <<"A", "A", "A", "A", "F">>,
     <<"A", "A", "P", "L", "\n">>, <<"\t", "I", "B", "M">>,
     <<"T", "O", "O", "L", "O", "N", "G", "1">>,
     <<"A", "V", "E", "R", "Y", "L", "O", "N", "G", "S", "Y", "M", "B", "O", "L">>}
NonStrings ==
    {[type |-> "NoneType", value |-> <<>>], [type |-> "int", value |-> <<"0">>],
     [type |-> "int", value |-> <<"7">>], [type |-> "float", value |-> <<"n", "a", "n">>]}
SymbolInputs ==
    {[type |-> "str", value |-> q] :
        q \in NamedSymbols \cup UNION {[1..k -> InputChars] : k \in 0..MaxSymbolLen}}
    \cup NonStrings

InitSymbol ==
    /\ Idle
    /\ symbol_in \in SymbolInputs
    /\ valid = Null
    /\ df = EmptyDict
    /\ scores = EmptyDict

\* the call is_valid_symbol(symbol_in)
ValidateSymbol ==
    /\ valid = Null
    /\ valid' = Some(is_valid_symbol(symbol_in))
    /\ UNCHANGED <<symbol_in, df, scores, retryVars, pipeVars>>

SymbolNext == ValidateSymbol

SpecSymbol == InitSymbol /\ [][SymbolNext]_vars

----------------------------------------------------------------------------
\* builders.py:88-126, the strategy scores of build_assets.  A DataFrame is a
\* function from its symbols to rows.  dividend_yield is counted in
\* hundredths (2 is 0.02, so dividend_yield * 100 is the number kept) and beta
\* in tenths (5 is 0.5, so beta * 50 is five times the number kept).  A raw
\* value is a fraction [num, den] with den > 0.

\* Series.fillna(value) on one cell
FillNa(cell, value) == IF cell = Null THEN value ELSE cell[1]
Abs(n) == IF n < 0 THEN 0 - n ELSE n
Whole(n) == [num |-> n, den |-> 1]
Less(a, b) == a.num * b.den < b.num * a.den
Same(a, b) == a.num * b.den = b.num * a.den

\* np.log10 on the market caps in play, all powers of ten
RECURSIVE Log10(_)
Log10(n) == IF n < 10 THEN 0 ELSE 1 + Log10(n \div 10)

\* builders.py:93-96
dividend_daddy_raw_sum(row) ==
    Whole(FillNa(row.dividend_yield, 0) + Abs(FillNa(row.beta, 10)) * 5)
dividend_daddy_raw(row) ==
    Whole(FillNa(row.dividend_yield, 0) + (100 - Abs(FillNa(row.beta, 10)) * 5))
\* builders.py:99-102
moon_shot_raw(row) == Whole(FillNa(row.beta, 0) * 5 + (100 - FillNa(row.rsi_14, 50)))
\* builders.py:105-108
falling_knife_raw(row) ==
    [num |-> (100 - FillNa(row.rsi_14, 50)) * row.price
               + (FillNa(row.ma_200, row.price) - row.price) * 100,
     den |-> row.price]
\* builders.py:111
over_hyped_raw(row) == Whole(FillNa(row.rsi_14, 50))
\* builders.py:114
inst_whale_raw(row) == Whole(Log10(FillNa(row.market_cap, 1)))

\* builders.py:124-126: Series.rank(pct=True) * 100, then astype(int).  The
\* rank of a value is the mean of the positions its ties take (method
\* 'average'), pct divides it by the number of values; no raw value is NaN.
\* less and ties: how many values are smaller and how many equal (itself included).
RankScoreNoPct(less, ties, count) == (100 * (2 * less + ties + 1)) \div 2
RankScore(less, ties, count) == (100 * (2 * less + ties + 1)) \div (2 * count)

PercentileScore(raws, s) ==
    RankScore(Cardinality({t \in DOMAIN raws : Less(raws[t], raws[s])}),
              Cardinality({t \in DOMAIN raws : Same(raws[t], raws[s])}),
              Cardinality(DOMAIN raws))

\* builders.py:117-148: the five score columns, one row per symbol
StrategyScores(frame) ==
    [s \in DOMAIN frame |->
        [dividend_daddy_score |->
            PercentileScore([t \in DOMAIN frame |-> dividend_daddy_raw(frame[t])], s),
         moon_shot_score |->
            PercentileScore([t \in DOMAIN frame |-> moon_shot_raw(frame[t])], s),
         falling_knife_score |->
            PercentileScore([t \in DOMAIN frame |-> falling_knife_raw(frame[t])], s),
         over_hyped_score |->
            PercentileScore([t \in DOMAIN frame |-> over_hyped_raw(frame[t])], s),
         inst_whale_score |->
            PercentileScore([t \in DOMAIN frame |-> inst_whale_raw(frame[t])], s)]]

\* The universes tried: up to MaxUniverse symbols, each with one of the rows
\* below (all of which pass the price and volume filter of the query).
MaxUniverse == 3
UniverseSymbols == <<"X", "Y", "Z", "V">>
DividendYields == {Null, Some(2), Some(8)}
Betas == {Null, Some(5), Some(10), Some(0 - 20)}
Technicals ==
    {[rsi_14 |-> Null, ma_200 |-> Null, price |-> 10, market_cap |-> Some(100000000)],
     [rsi_14 |-> Some(30), ma_200 |-> Some(24), price |-> 20,
      market_cap |-> Some(1000000000)]}
ScoreRows ==
    {[dividend_yield |-> y, beta |-> b, rsi_14 |-> t.rsi_14, ma_200 |-> t.ma_200,
      price |-> t.price, market_cap |-> t.market_cap] :
        y \in DividendYields, b \in Betas, t \in Technicals}
Universes ==
    UNION {[{UniverseSymbols[n] : n \in 1..k} -> ScoreRows] : k \in 1..MaxUniverse}

InitScores ==
    /\ Idle
    /\ symbol_in = NoSymbol
    /\ valid = Null
    /\ df \in Universes
    /\ scores = EmptyDict

\* builders.py:88-148 on a DataFrame that is not empty
CalculateScores ==
    /\ df # EmptyDict
    /\ scores = EmptyDict
    /\ scores' = StrategyScores(df)
    /\ UNCHANGED <<symbol_in, valid, df, retryVars, pipeVars>>

ScoresNext == CalculateScores

SpecScores == InitScores /\ [][ScoresNext]_vars

----------------------------------------------------------------------------
\* Properties of the pipeline.

Last(q) == q[Len(q)]
HasCompletedRow(d, n) ==
    n \in DOMAIN d.pipeline_steps /\ d.pipeline_steps[n].status = "completed"
\* non-ETF tickers without a DailyMetric row that holds a price
UnpricedStocks(d) ==
    {s \in DOMAIN d.tickers :
        /\ d.tickers[s] = FALSE
        /\ ~(s \in DOMAIN d.daily_metrics /\ d.daily_metrics[s].price # Null)}

\* C1: Pass 1 is resumable.  Whenever extract_prices (new or earlier CLI)
\* computes its pending list, the list holds exactly the non-ETF tickers that
\* have no priced DailyMetric row; every symbol handed to yf.download is a
\* non-ETF ticker that had no priced row just before the download; and no ETF
\* ticker is ever fetched or given a DailyMetric row.
C1_Pass1Resumable ==
    [][/\ (proc'.pc = "prices-loop" /\ proc.pc # "prices-loop")
            => /\ SeqToSet(proc'.pending_symbols) = UnpricedStocks(db)
               /\ Len(proc'.pending_symbols) = Cardinality(UnpricedStocks(db))
       /\ (Len(invoked') > Len(invoked) /\ Last(invoked') = "extract-prices"
             /\ proc'.pc # "prices-loop")
            => UnpricedStocks(db) = {}
       /\ (fetched' \ fetched) \subseteq UnpricedStocks(db)
       /\ \A s \in DOMAIN db'.tickers :
            db'.tickers[s] => (s \notin DOMAIN db'.daily_metrics /\ s \notin fetched')
      ]_vars

\* a later extract_prices fetched IBM alone: AAPL was priced already and the
\* ETF SPY is a ticker
C1_Witness ==
    /\ proc.cmd = "none"
    /\ invoked # <<>> /\ Last(invoked) = "extract-prices"
    /\ fetched = {"IBM"}
    /\ "AAPL" \in DOMAIN db.daily_metrics /\ db.daily_metrics["AAPL"].price # Null
    /\ "SPY" \in DOMAIN db.tickers /\ db.tickers["SPY"]

\* C2: when a stage call of run-all ends in a failure, a failed pipeline_steps
\* row named after that stage exists, the pipeline_runs row of the run is
\* failed with that stage as failed_step, and every other stage's completed
\* row is as it was.
C2_FailureRecorded ==
    [][(proc.cmd = "run-all" /\ proc'.cmd = "none"
          /\ outcome'.kind \in {"failed", "exit"})
         => LET S == outcome'.stage
            IN  /\ S \in DOMAIN db'.pipeline_steps
                /\ db'.pipeline_steps[S].status = "failed"
                /\ db'.pipeline_runs[proc.run_id] = [status |-> "failed", failed_step |-> S]
                /\ \A n \in DOMAIN db.pipeline_steps :
                     (n # S /\ db.pipeline_steps[n].status = "completed")
                        => /\ n \in DOMAIN db'.pipeline_steps
                           /\ db'.pipeline_steps[n] = db.pipeline_steps[n]
      ]_vars

\* C3: in the run-all that follows a run-all failed at stage S (no --force, no
\* --clean), no stage is invoked while it has a completed row, S is never
\* skipped, and the run does not get past S or end in a failure without
\* having invoked S.
C3_RetryAfterFailure ==
    [][/\ (proc'.cmd = "run-all" /\ proc'.retry_of # "" /\ ~proc'.force /\ ~proc'.clean)
            => /\ proc'.retry_of \notin skipped'
               /\ (proc'.pc = "finish" \/ proc'.k > StagePos(proc'.retry_of))
                    => proc'.retry_of \in SeqToSet(invoked')
       /\ (proc.cmd = "run-all" /\ proc.retry_of # "" /\ ~proc.force /\ ~proc.clean)
            => /\ (Len(invoked') > Len(invoked)) => ~HasCompletedRow(db, Last(invoked'))
               /\ (outcome'.kind \in {"failed", "exit", "AttributeError", "completed"})
                    => proc.retry_of \in SeqToSet(invoked')
      ]_vars

\* the retry of a run that failed in extract-prices skipped sync-ftp and
\* called extract_prices again
C3_Witness ==
    /\ proc.cmd = "run-all" /\ proc.retry_of = "extract-prices"
    /\ ~proc.force /\ ~proc.clean
    /\ skipped = {"sync-ftp"}
    /\ invoked = <<"extract-prices">>

\* C4: once all five stages have returned normally in a run-all, the state of
\* the day is completed, and the next run-all without --force starts no run.
C4_CompletedAfterFullRun ==
    [][/\ (proc'.cmd = "run-all" /\ proc'.pc = "finish" /\ returned_ok' = StageSet)
            => get_pipeline_state(db').status = "completed"
       /\ (proc.cmd = "none" /\ outcome.kind \in {"completed", "AttributeError"}
             /\ returned_ok = StageSet /\ proc'.cmd = "run-all")
            => proc'.force
      ]_vars

\* C5: in one run-all the stages are started in the order of Stages, and when
\* a stage is started every earlier stage was skipped as one of the completed
\* steps read at the start, or has returned normally in this run.
C5_StageOrder ==
    [][(proc.cmd = "run-all" /\ Len(invoked') > Len(invoked))
         => LET s == Last(invoked')
            IN  /\ invoked' = Append(invoked, s)
                /\ \A n \in 1..Len(invoked) : StagePos(invoked[n]) < StagePos(s)
                /\ \A e \in StageSet :
                     StagePos(e) < StagePos(s)
                        => \/ e \in skipped /\ e \in proc.completed_steps
                           \/ e \in returned_ok
      ]_vars

\* a run that skipped the three first stages, ran build and started generate-hugo
C5_Witness ==
    /\ skipped = {"sync-ftp", "extract-prices", "extract-metadata"}
    /\ invoked = <<"build", "generate-hugo">>
    /\ returned_ok = {"build", "generate-hugo"}
    /\ proc.cmd = "run-all" /\ proc.pc = "finish"

\* the rows of the day, read apart from get_pipeline_state's own lists
RowsWith(d, status) == {n \in DOMAIN d.pipeline_steps : d.pipeline_steps[n].status = status}
MostRecentStatus(d) == d.pipeline_steps[Last(d.step_order)].status

\* C6 as stated: idle iff no rows; in_progress iff the most recent row is
\* in_progress; failed iff the most recent row is failed; completed iff every
\* required stage has a completed row; partial otherwise.
C6_MostRecentRow ==
    outcome.kind = "status" =>
      LET rows == DOMAIN db.pipeline_steps
          st == outcome.stage
      IN  /\ st = "idle" <=> rows = {}
          /\ st = "in_progress" <=> (rows # {} /\ MostRecentStatus(db) = "in_progress")
          /\ st = "failed" <=> (rows # {} /\ MostRecentStatus(db) = "failed")
          /\ st = "completed" <=> (rows # {} /\ StageSet \subseteq RowsWith(db, "completed"))

\* C6 amended: idle iff no rows; in_progress iff some row is in_progress;
\* failed iff no row is in_progress and some row is failed; completed iff no
\* row is in_progress or failed and every required stage has a completed row;
\* partial otherwise.
C6_AnyRowClassification ==
    outcome.kind = "status" =>
      LET rows == DOMAIN db.pipeline_steps
          st == outcome.stage
      IN  /\ st \in {"idle", "in_progress", "failed", "completed", "partial"}
          /\ st = "idle" <=> rows = {}
          /\ st = "in_progress" <=> RowsWith(db, "in_progress") # {}
          /\ st = "failed" <=>
                (RowsWith(db, "in_progress") = {} /\ RowsWith(db, "failed") # {})
          /\ st = "completed" <=>
                /\ rows # {}
                /\ RowsWith(db, "in_progress") = {} /\ RowsWith(db, "failed") = {}
                /\ StageSet \subseteq RowsWith(db, "completed")

\* the state read is failed although the most recent row is a completed one
C6_Witness ==
    /\ outcome = [kind |-> "status", stage |-> "failed"]
    /\ db.step_order # <<>> /\ MostRecentStatus(db) = "completed"
    /\ RowsWith(db, "failed") # {}

\* C7: a run-all that read the state failed and carries neither --force nor
\* --clean calls no stage.
C7_FailedNotResumed ==
    [][(proc.cmd = "run-all" /\ proc.status = "failed" /\ ~proc.force /\ ~proc.clean)
         => invoked' = invoked
      ]_vars

\* C8: a run-all with --force skips no stage.
C8_ForceSkipsNothing ==
    [][(proc.cmd = "run-all" /\ proc.force) => skipped' = skipped]_vars

----------------------------------------------------------------------------
\* A step is a record_failure(topic) call exactly when it counts an attempt.
IsFailureStep(topic) ==
    /\ topic \in DOMAIN topic_attempts'
    /\ topic_attempts'[topic] = AttemptsOf(topic) + 1

\* The delay record_failure finds for the topic: the stored one, or the
\* initial delay when the topic has no entry.
DelayAtCall(topic) ==
    IF topic \in DOMAIN topic_delays THEN topic_delays[topic]
    ELSE BACKOFF_INITIAL_DELAY

\* C9: consecutive record_failure calls on a topic return the initial delay
\* first and then the previous returned delay times the multiplier, capped at
\* max_delay; the delay stored for a topic never exceeds max_delay.
C9_DelaySequence ==
    /\ [][\A topic \in Topics :
            (IsFailureStep(topic) /\ ~last_call'.raised) =>
               /\ last_call'.ret =
                    IF topic \in DOMAIN prev_returned
                    THEN Min(prev_returned[topic] * BACKOFF_MULTIPLIER, max_delay)
                    ELSE BACKOFF_INITIAL_DELAY
               /\ (topic \in DOMAIN prev_returned =>
                     last_call'.ret >= prev_returned[topic])]_vars
    /\ [](\A topic \in DOMAIN topic_delays : topic_delays[topic] <= max_delay)

\* C9 witness: a topic whose stored delay has been capped at max_delay after a
\* run of doubling returns (the latest returned 512 half-seconds = 256 s).
C9_Witness ==
    \E topic \in DOMAIN topic_delays :
        /\ topic_delays[topic] = max_delay
        /\ last_call.op = "record_failure" /\ last_call.topic = topic
        /\ ~last_call.raised /\ last_call.ret = 512
        /\ topic_attempts[topic] = 10

\* C10: record_failure raises exactly when the delay it finds has reached
\* max_delay; a raising call sleeps nothing and leaves the stored delay as it
\* was, and once a topic has raised every further record_failure on it raises.
C10_RaiseIffAtLimit ==
    [][\A topic \in Topics :
          IsFailureStep(topic) =>
             /\ last_call'.raised <=> (DelayAtCall(topic) >= max_delay)
             /\ last_call'.raised =>
                   /\ last_call'.slept = 0
                   /\ topic_delays'[topic] = DelayAtCall(topic)
             /\ ~last_call'.raised => last_call'.slept = DelayAtCall(topic)
             /\ topic \in limit_hit => last_call'.raised]_vars

\* C10 witness: a topic that has raised on two calls in a row.
C10_Witness ==
    \E topic \in limit_hit :
        /\ last_call.op = "record_failure" /\ last_call.topic = topic
        /\ last_call.raised
        /\ topic_attempts[topic] = 12
        /\ topic_delays[topic] = max_delay

\* A step that is a call of record_success(topic).
IsSuccessStep(topic) ==
    /\ last_call'.op = "record_success"
    /\ last_call'.topic = topic

\* C11: after record_success(topic) the topic has no entry in either dict, so
\* the next record_failure on it sleeps and returns the initial delay whatever
\* came before (a raised limit included); record_success on a topic without an
\* entry changes neither dict; and record_success never changes the delay or
\* the attempt count of another topic.
C11_SuccessResets ==
    [][\A topic \in Topics :
          /\ IsSuccessStep(topic) =>
                /\ topic \notin DOMAIN topic_delays'
                /\ topic \notin DOMAIN topic_attempts'
                /\ topic \notin DOMAIN topic_delays =>
                      /\ topic_delays' = topic_delays
                      /\ topic_attempts' = topic_attempts
                /\ \A other \in Topics \ {topic} :
                      /\ other \in DOMAIN topic_delays' <=> other \in DOMAIN topic_delays
                      /\ other \in DOMAIN topic_attempts' <=> other \in DOMAIN topic_attempts
                      /\ other \in DOMAIN topic_delays =>
                            topic_delays'[other] = topic_delays[other]
                      /\ other \in DOMAIN topic_attempts =>
                            topic_attempts'[other] = topic_attempts[other]
          /\ (/\ IsFailureStep(topic)
              /\ last_call.op = "record_success"
              /\ last_call.topic = topic) =>
                /\ ~last_call'.raised
                /\ last_call'.ret = BACKOFF_INITIAL_DELAY
                /\ last_call'.slept = BACKOFF_INITIAL_DELAY
                /\ topic_attempts'[topic] = 1]_vars

\* C11 witness: record_success has just cleared a topic while the other topic
\* still holds the capped delay and the attempts of a raised limit.
C11_Witness ==
    \E topic \in Topics, other \in limit_hit :
        /\ other # topic
        /\ last_call.op = "record_success" /\ last_call.topic = topic
        /\ topic \notin DOMAIN topic_delays
        /\ other \in DOMAIN topic_delays
        /\ topic_delays[other] = max_delay
        /\ topic_attempts[other] = 11

\* A step in which extract_prices (extractors.py) is called.
IsExtractPricesCall ==
    /\ Len(invoked') > Len(invoked)
    /\ Last(invoked') = "extract-prices"

\* C12: a call of extract_prices on a day whose extract-prices row is already
\* completed writes no DailyMetric row and leaves that row completed with the
\* tickers_processed the earlier completion recorded.
C12_CompletedIdempotent ==
    [][(IsExtractPricesCall /\ HasCompletedRow(db, "extract-prices")) =>
          /\ db'.daily_metrics = db.daily_metrics
          /\ HasCompletedRow(db', "extract-prices")
          /\ db'.pipeline_steps["extract-prices"].tickers_processed =
                db.pipeline_steps["extract-prices"].tickers_processed]_vars

\* C12 as the code has it: a call of extract_prices on a day on which no
\* non-ETF ticker lacks a price makes no lookup, writes no DailyMetric row and
\* leaves the extract-prices row completed, with tickers_processed the number
\* of today's DailyMetric rows that hold a price.
C12_NoPendingNoWrite ==
    [][(IsExtractPricesCall /\ UnpricedStocks(db) = {}) =>
          /\ db'.daily_metrics = db.daily_metrics
          /\ fetched' = {}
          /\ proc'.pc # "prices-loop"
          /\ "extract-prices" \in returned_ok'
          /\ HasCompletedRow(db', "extract-prices")
          /\ db'.pipeline_steps["extract-prices"].tickers_processed =
                Cardinality({s \in DOMAIN db.daily_metrics :
                                db.daily_metrics[s].price # Null})]_vars

\* C12 witness: extract_prices was called with both stocks priced, returned
\* without a lookup and recorded the two priced rows.
C12_Witness ==
    /\ invoked # <<>> /\ Last(invoked) = "extract-prices"
    /\ "extract-prices" \in returned_ok
    /\ fetched = {}
    /\ UnpricedStocks(db) = {}
    /\ Cardinality(DOMAIN db.daily_metrics) = 2
    /\ HasCompletedRow(db, "extract-prices")
    /\ db.pipeline_steps["extract-prices"].tickers_processed = 2

\* A step in which sync_ftp (ftp_sync.py) is called.
IsSyncFtpCall ==
    /\ Len(invoked') > Len(invoked)
    /\ Last(invoked') = "sync-ftp"

\* C13: a call of sync_ftp on a day on which the sync already completed
\* returns without a download and changes no table; and no call of sync_ftp
\* updates or deletes a Ticker row that is already present.
C13_SyncIdempotent ==
    [][IsSyncFtpCall =>
          /\ (db.sync_history \/ HasCompletedRow(db, "sync-ftp")) =>
                /\ db' = db
                /\ "sync-ftp" \in returned_ok'
          /\ \A s \in DOMAIN db.tickers :
                /\ s \in DOMAIN db'.tickers
                /\ db'.tickers[s] = db.tickers[s]]_vars

\* C13 witness: AAPL was in the table as an ETF before today's sync, the sync
\* added IBM and left AAPL's row alone, and a later sync-ftp --clean, which
\* deleted the step row, returned without writing anything.
C13_Witness ==
    /\ invoked # <<>> /\ Last(invoked) = "sync-ftp"
    /\ "sync-ftp" \in returned_ok
    /\ db.sync_history
    /\ "sync-ftp" \notin DOMAIN db.pipeline_steps
    /\ DOMAIN db.tickers = {"AAPL", "IBM"}
    /\ db.tickers["AAPL"] = TRUE
    /\ db.tickers["IBM"] = FALSE

\* C14: a symbol whose DailyMetric row for today has a price under 5 or a
\* volume under 100000 is never fetched by Pass 2 (no symbol extract_metadata
\* still has to fetch is one), and no call of build_assets writes a
\* StrategyScore row for it.
C14_FilteredNeverBuilt ==
    /\ [](proc.pc = "metadata-loop" =>
            \A j \in (proc.i + 1)..Len(proc.pending_symbols) :
               LET s == proc.pending_symbols[j]
               IN  /\ s \in DOMAIN db.daily_metrics
                   /\ db.daily_metrics[s].price # Null
                   /\ db.daily_metrics[s].price[1] >= MIN_PRICE
                   /\ db.daily_metrics[s].volume >= MIN_VOLUME)
    /\ [][(Len(invoked') > Len(invoked) /\ Last(invoked') = "build") =>
            \A s \in db'.strategy_scores \ db.strategy_scores :
               /\ s \in DOMAIN db.daily_metrics
               /\ db.daily_metrics[s].price # Null
               /\ db.daily_metrics[s].price[1] >= MIN_PRICE
               /\ db.daily_metrics[s].volume >= MIN_VOLUME]_vars

\* C14 witness: Build has written a StrategyScore row for AAPL alone while IBM
\* has a DailyMetric row under the price or volume limit.
C14_Witness ==
    /\ invoked # <<>> /\ Last(invoked) = "build"
    /\ db.strategy_scores = {"AAPL"}
    /\ HasCompletedRow(db, "build")
    /\ "IBM" \in DOMAIN db.daily_metrics
    /\ db.daily_metrics["IBM"].price # Null
    /\ db.daily_metrics["IBM"].volume < MIN_VOLUME

\* C15: every StrategyScore row of today has a DailyMetric row of today with
\* the same symbol, whatever commands have run.
C15_ScoresHaveMetrics ==
    \A s \in db.strategy_scores : s \in DOMAIN db.daily_metrics

\* what the claim calls accepted: 1 to 5 letters, no denylisted test symbol,
\* no 5-letter symbol ending in W, R, U, P, Q or F
AcceptedWord(q) ==
    /\ Len(q) >= 1 /\ Len(q) <= 5
    /\ \A n \in 1..Len(q) : q[n] \in UpperLetters
    /\ q \notin TestTickers
    /\ ~(Len(q) = 5 /\ q[5] \in {"W", "R", "U", "P", "Q", "F"})

\* C16: is_valid_symbol(s) is True exactly when s is a string of 1 to 5
\* letters and nothing else that is no denylisted test symbol and no 5-letter
\* symbol ending in W, R, U, P, Q or F; every other argument gives False.
C16_ValidExactly ==
    valid # Null =>
       (valid[1] <=> (symbol_in.type = "str" /\ AcceptedWord(symbol_in.value)))

\* C16 as the code has it: the same, with the whitespace around the string
\* left out of account: True exactly when the argument is a string that is
\* whitespace, then an accepted word, then whitespace.
C16_ValidAfterStrip ==
    valid # Null =>
       (valid[1] <=>
          /\ symbol_in.type = "str"
          /\ \E i \in 1..Len(symbol_in.value), j \in 1..Len(symbol_in.value) :
                /\ i <= j
                /\ \A n \in 1..(i - 1) : symbol_in.value[n] \in Whitespace
                /\ \A n \in (j + 1)..Len(symbol_in.value) :
                      symbol_in.value[n] \in Whitespace
                /\ AcceptedWord(SubSeq(symbol_in.value, i, j)))

\* C16 witness: a five-letter symbol with a blank in front was accepted.
C16_Witness ==
    /\ valid = Some(TRUE)
    /\ Len(symbol_in.value) = 6
    /\ symbol_in.value[1] = " "
    /\ symbol_in.value[6] = "A"

\* the universe of the scenario: X with dividend yield 0.02 and beta 1.0, Y
\* with dividend yield 0.08 and beta 0.5, and nothing else
IsXYUniverse ==
    /\ DOMAIN df = {"X", "Y"}
    /\ df["X"].dividend_yield = Some(2) /\ df["X"].beta = Some(10)
    /\ df["Y"].dividend_yield = Some(8) /\ df["Y"].beta = Some(5)

\* C17: in that universe Y's raw dividend_daddy value exceeds X's, and after
\* the percentile ranking Y's dividend_daddy score is 100 and X's is 0.
C17_XYScores ==
    (IsXYUniverse /\ scores # EmptyDict) =>
       /\ Less(dividend_daddy_raw(df["X"]), dividend_daddy_raw(df["Y"]))
       /\ scores["Y"].dividend_daddy_score = 100
       /\ scores["X"].dividend_daddy_score = 0

\* C17 as the code has it: Y's raw value exceeds X's, Y's score is 100 and
\* X's is 50.
C17_XYScoresRanked ==
    (IsXYUniverse /\ scores # EmptyDict) =>
       /\ Less(dividend_daddy_raw(df["X"]), dividend_daddy_raw(df["Y"]))
       /\ scores["Y"].dividend_daddy_score = 100
       /\ scores["X"].dividend_daddy_score = 50

\* C17 witness: the scenario's universe has been scored.
C17_Witness ==
    /\ IsXYUniverse
    /\ scores # EmptyDict
    /\ scores["Y"].dividend_daddy_score = 100
    /\ scores["X"].dividend_daddy_score = 50

\* C18: every one of the five scores of every scored symbol is an integer
\* from 0 to 100, and every symbol of the universe is scored.
C18_ScoresInRange ==
    scores # EmptyDict =>
       /\ DOMAIN scores = DOMAIN df
       /\ \A s \in DOMAIN scores :
             /\ scores[s].dividend_daddy_score \in 0..100
             /\ scores[s].moon_shot_score \in 0..100
             /\ scores[s].falling_knife_score \in 0..100
             /\ scores[s].over_hyped_score \in 0..100
             /\ scores[s].inst_whale_score \in 0..100

\* C18 witness: three symbols whose dividend yield, beta, RSI and MA200 are
\* all null, so that all raw values are equal, have been scored (each score
\* is the rank 2 of 3, 66).
C18_Witness ==
    /\ scores # EmptyDict
    /\ Cardinality(DOMAIN df) = 3
    /\ \A s \in DOMAIN df :
          /\ df[s].dividend_yield = Null /\ df[s].beta = Null
          /\ df[s].rsi_14 = Null /\ df[s].ma_200 = Null
          /\ scores[s].dividend_daddy_score = 66
          /\ scores[s].falling_knife_score = 66

\* the stage runners that work on the database
StageRunners == {"sync-ftp", "extract-prices", "extract-metadata", "build"}

\* C19: every stage runner writes an in_progress row before it fetches or
\* persists anything: a stage runner that was called and has not returned
\* normally has its row, in_progress (or failed, once run_all's handler has
\* recorded the failure).
C19_InProgressFirst ==
    \A stage \in StageRunners :
       (stage \in SeqToSet(invoked) /\ stage \notin returned_ok) =>
          /\ stage \in DOMAIN db.pipeline_steps
          /\ db.pipeline_steps[stage].status \in {"in_progress", "failed"}

\* C20: in Pass 1, whenever the lookup of a batch succeeds with data for at
\* least one symbol, the batch leaves those symbols' rows, with the prices
\* returned, in daily_metrics, whatever the lookup returned.
C20_BatchCommitted ==
    (proc.cmd \in {"run-all", "extract-prices"} /\ proc.pc = "prices-loop") =>
       LET total == Len(proc.pending_symbols)
           batch == SubSeq(proc.pending_symbols, proc.i + 1,
                           Min(proc.i + PRICE_BATCH_SIZE, total))
           batch_num == (proc.i \div PRICE_BATCH_SIZE) + 1
       IN  \A quotes \in [SeqToSet(batch) -> Quotes] :
              LET r == PriceBatch(db, topic_delays, topic_attempts, batch, batch_num,
                                  proc.processed, "none", quotes)
              IN  \A s \in SeqToSet(batch) :
                     quotes[s].has =>
                        /\ s \in DOMAIN r.db.daily_metrics
                        /\ r.db.daily_metrics[s].price = quotes[s].price
                        /\ r.db.daily_metrics[s].volume = quotes[s].volume

\* C21: whenever a stage runner returns normally, a completed pipeline_steps
\* row of today exists for that stage.
C21_ReturnedHasCompletedRow ==
    [][\A stage \in returned_ok' \ returned_ok : HasCompletedRow(db', stage)]_vars

\* the batch extract_prices is about to fetch, and its number
CurrentBatch ==
    SubSeq(proc.pending_symbols, proc.i + 1,
           Min(proc.i + PRICE_BATCH_SIZE, Len(proc.pending_symbols)))
CurrentBatchNum == (proc.i \div PRICE_BATCH_SIZE) + 1
InPricesLoop == proc.cmd \in {"run-all", "extract-prices"} /\ proc.pc = "prices-loop"
InMetadataLoop == proc.cmd \in {"run-all", "extract-metadata"} /\ proc.pc = "metadata-loop"
TransientErrors == {"rate limit", "connection"}

\* C22: when BackoffLimitExceeded leaves an iteration of either extraction
\* loop, the stage's row is in_progress at that moment, and run_all's handler
\* then overwrites it with failed.
C22_LimitLeavesInProgress ==
    /\ InPricesLoop =>
         \A error \in DownloadErrors, quotes \in [SeqToSet(CurrentBatch) -> Quotes] :
            LET r == PriceBatch(db, topic_delays, topic_attempts, CurrentBatch,
                                CurrentBatchNum, proc.processed, error, quotes)
            IN  r.exception = "BackoffLimitExceeded" =>
                  /\ r.raised
                  /\ r.db.pipeline_steps["extract-prices"].status = "in_progress"
                  /\ proc.cmd = "run-all" =>
                        HandleException(r.db, proc, "extract-prices")
                           .pipeline_steps["extract-prices"].status = "failed"
    /\ InMetadataLoop =>
         \A error \in DownloadErrors, market_cap \in MarketCaps :
            LET r == MetadataSymbol(db, topic_delays, topic_attempts,
                                    proc.pending_symbols[proc.i + 1],
                                    proc.processed, error, market_cap)
            IN  r.exception = "BackoffLimitExceeded" =>
                  /\ r.raised
                  /\ r.db.pipeline_steps["extract-metadata"].status = "in_progress"
                  /\ proc.cmd = "run-all" =>
                        HandleException(r.db, proc, "extract-metadata")
                           .pipeline_steps["extract-metadata"].status = "failed"

\* The case of C22 does not arise: no iteration of either loop, whatever the
\* lookup does, ends with BackoffLimitExceeded.
C22_LimitNeverRaised ==
    /\ InPricesLoop =>
         \A error \in DownloadErrors, quotes \in [SeqToSet(CurrentBatch) -> Quotes] :
            PriceBatch(db, topic_delays, topic_attempts, CurrentBatch, CurrentBatchNum,
                       proc.processed, error, quotes).exception # "BackoffLimitExceeded"
    /\ InMetadataLoop =>
         \A error \in DownloadErrors, market_cap \in MarketCaps :
            MetadataSymbol(db, topic_delays, topic_attempts,
                           proc.pending_symbols[proc.i + 1], proc.processed,
                           error, market_cap).exception # "BackoffLimitExceeded"

\* C23: in Pass 1 a batch whose lookup fails, without the backoff limit being
\* exceeded, does not abort the stage: nothing leaves the iteration, no
\* DailyMetric row is written and the symbols of the batch stay pending.
C23_BatchFailureGoesOn ==
    InPricesLoop =>
       \A error \in DownloadErrors \ {"none"},
          quotes \in [SeqToSet(CurrentBatch) -> Quotes] :
          LET r == PriceBatch(db, topic_delays, topic_attempts, CurrentBatch,
                              CurrentBatchNum, proc.processed, error, quotes)
          IN  ~(error \in TransientErrors
                  /\ LimitExceeded(DelayAtCall("yahoo_finance_batch"))) =>
                 /\ ~r.raised
                 /\ r.exception = "none"
                 /\ r.db.daily_metrics = db.daily_metrics
                 /\ SeqToSet(CurrentBatch) \subseteq SeqToSet(PendingPrices(r.db))

\* A step in which extract_metadata (extractors.py) is called.
IsExtractMetadataCall ==
    /\ Len(invoked') > Len(invoked)
    /\ Last(invoked') = "extract-metadata"

\* the list of symbols the extract_metadata called in this step works on
PendingAfterCall == IF proc'.pc = "metadata-loop" THEN proc'.pending_symbols ELSE <<>>

\* C24: a symbol Pass 2 has processed without an error (its row updated, the
\* symbol counted in processed) is not in the pending set a later Pass 2
\* invocation computes, whatever the lookup returned for it.
C24_ProcessedNotPending ==
    InMetadataLoop =>
       \A market_cap \in MarketCaps :
          LET symbol == proc.pending_symbols[proc.i + 1]
              r == MetadataSymbol(db, topic_delays, topic_attempts, symbol,
                                  proc.processed, "none", market_cap)
          IN  r.processed = proc.processed + 1 =>
                 symbol \notin SeqToSet(PendingMetadata(r.db))

\* C24 as the code has it: the same for a symbol for which the lookup returned
\* a market cap; and no Pass 2 invocation works on a symbol whose row holds a
\* market cap.
C24_ProcessedWithCapNotPending ==
    /\ [](InMetadataLoop =>
            \A market_cap \in MarketCaps \ {Null} :
               LET symbol == proc.pending_symbols[proc.i + 1]
                   r == MetadataSymbol(db, topic_delays, topic_attempts, symbol,
                                       proc.processed, "none", market_cap)
               IN  /\ r.processed = proc.processed + 1
                   /\ r.db.daily_metrics[symbol].market_cap = market_cap
                   /\ symbol \notin SeqToSet(PendingMetadata(r.db)))
    /\ [][IsExtractMetadataCall =>
            \A s \in DOMAIN db.daily_metrics :
               db.daily_metrics[s].market_cap # Null =>
                  s \notin SeqToSet(PendingAfterCall)]_vars

\* C24 witness: a later extract_metadata found nothing pending and returned
\* while AAPL, processed before, holds a market cap and passes the filter.
C24_Witness ==
    /\ invoked # <<>> /\ Last(invoked) = "extract-metadata"
    /\ "extract-metadata" \in returned_ok
    /\ "AAPL" \in DOMAIN db.daily_metrics
    /\ db.daily_metrics["AAPL"].market_cap # Null
    /\ PassesFilter(db.daily_metrics["AAPL"])

\* C25: when the download fails or a listing file cannot be parsed, sync_ftp
\* does not return normally, inserts no ticker of the failing feed, writes no
\* sync_history row and records no completed sync-ftp row.
C25_SyncFailsAtOnce ==
    (AtStage("sync-ftp") /\ ~AlreadySynced(db)) =>
       \A download_ok \in BOOLEAN, nasdaq_ok \in BOOLEAN, other_ok \in BOOLEAN,
          commit_ok \in BOOLEAN :
          LET r == sync_ftp(db, download_ok, nasdaq_ok, other_ok, commit_ok)
              added == (DOMAIN r.db.tickers) \ (DOMAIN db.tickers)
          IN  ~(download_ok /\ nasdaq_ok /\ other_ok) =>
                 /\ r.result # "return"
                 /\ ~r.db.sync_history
                 /\ ~HasCompletedRow(r.db, "sync-ftp")
                 /\ (~download_ok \/ ~nasdaq_ok) => added \cap NasdaqListed = {}
                 /\ (~download_ok \/ ~other_ok) => added \cap OtherListed = {}

\* C26: a run-all that created its pipeline_runs row and ended without being
\* killed (all stages done, or a stage failed in any way) has updated that
\* row once, from pending to completed or failed.
C26_RunRowFinalized ==
    [][(proc.cmd = "run-all" /\ proc'.cmd = "none" /\ outcome'.kind # "none") =>
          /\ db.pipeline_runs[proc.run_id].status = "pending"
          /\ db'.pipeline_runs[proc.run_id].status \in {"completed", "failed"}]_vars

\* what an iteration ending with r has to be after a transient failure on
\* topic: below the ceiling the backoff tracker has counted the failure and
\* the stage goes on (to attempt the item again); at the ceiling the failure
\* is escalated as BackoffLimitExceeded
RetriedOrEscalated(r, topic) ==
    IF LimitExceeded(DelayAtCall(topic))
    THEN r.raised /\ r.exception = "BackoffLimitExceeded"
    ELSE /\ ~r.raised /\ r.exception = "none"
         /\ topic \in DOMAIN r.attempts
         /\ r.attempts[topic] = AttemptsOf(topic) + 1

\* C27: a Pass 1 batch or a Pass 2 symbol whose fetch fails with a transient
\* error goes through the backoff wait and stays in the invocation's work
\* until it succeeds, or is escalated when its topic has reached the ceiling.
C27_TransientRetried ==
    /\ InPricesLoop =>
         \A error \in TransientErrors, quotes \in [SeqToSet(CurrentBatch) -> Quotes] :
            RetriedOrEscalated(
               PriceBatch(db, topic_delays, topic_attempts, CurrentBatch,
                          CurrentBatchNum, proc.processed, error, quotes),
               "yahoo_finance_batch")
    /\ InMetadataLoop =>
         \A error \in TransientErrors, market_cap \in MarketCaps :
            RetriedOrEscalated(
               MetadataSymbol(db, topic_delays, topic_attempts,
                              proc.pending_symbols[proc.i + 1], proc.processed,
                              error, market_cap),
               MetadataTopic(proc.pending_symbols[proc.i + 1]))

HasFundamentals(d, s) == s \in DOMAIN d.daily_metrics /\ d.daily_metrics[s].market_cap # Null

\* C28: every DailyMetric row with a market cap has a price of at least 5 and
\* a volume of at least 100000 and is in no pending set of Pass 1, and no
\* step of a Pass 1 loop replaces or removes such a row.
C28_FundamentalsKept ==
    /\ [](\A s \in DOMAIN db.daily_metrics :
             HasFundamentals(db, s) =>
                /\ db.daily_metrics[s].price # Null
                /\ db.daily_metrics[s].price[1] >= MIN_PRICE
                /\ db.daily_metrics[s].volume >= MIN_VOLUME
                /\ s \notin SeqToSet(PendingPrices(db))
                /\ proc.pc = "prices-loop" => s \notin SeqToSet(proc.pending_symbols))
    /\ [][proc.pc = "prices-loop" =>
            \A s \in DOMAIN db.daily_metrics :
               HasFundamentals(db, s) =>
                  /\ s \in DOMAIN db'.daily_metrics
                  /\ db'.daily_metrics[s] = db.daily_metrics[s]
                  /\ s \notin fetched']_vars

\* C28 witness: AAPL's row holds a market cap, and a Pass 1 run after that
\* fetched IBM alone and wrote IBM's row.
C28_Witness ==
    /\ proc.cmd = "none" /\ invoked = <<>>
    /\ fetched = {"IBM"}
    /\ HasPrice(db, "IBM")
    /\ HasFundamentals(db, "AAPL")
    /\ db.daily_metrics["AAPL"].price = Some(150)

====
